---- MODULE Spec2Model ----
(***************************************************************************)
(* Model of the elastica cheat-sheet build (cheat_sheet.py) and of the     *)
(* nearest-neighbour warm-start query of its consumers (elasticEnv.py,     *)
(* env.py).                                                                *)
(*                                                                         *)
(* Coordinates are kept as integers: every h and v is multiplied by        *)
(* 4 * (num_points - 1), which makes the linspace samples of the bounds    *)
(* -32 .. 0.5 and -17 .. 17, and the midpoints between them, exact.         *)
(*                                                                         *)
(* An array of M samples (theta, theta', an initial guess) is modelled by  *)
(* what determines it: the component, the grid point it was solved for and *)
(* the grid point whose Shape was the initial guess (NoPoint for zeros).   *)
(* Whether solve_bvp converges is an input of the model.                   *)
(***************************************************************************)
EXTENDS Integers, Sequences, FiniteSets, TLC

\* ------------------------------------------------------------------ bounds
\* Grid resolution per axis (80 in the program).
num_points == 3
\* The most (load pair, initial guess) inputs on which solve_bvp fails in a run.
MaxFailing == 3
\* The most grid indices without a Shape in a cheat sheet a consumer is given.
MaxMissing == 1

\* ------------------------------------------------------- program constants
\* The bounds of the load domain, times 4: h in -32 .. 0.5, v in -17 .. 17.
h_min4 == -128
h_max4 == 2
v_min4 == -68
v_max4 == 68
\* The consumers' largest horizontal load, times 4: h_limit = (-32, 32).
h_limit4 == 128

\* ------------------------------------------------------------ Parameter Grid
N == num_points * num_points
Index == 0 .. (N - 1)

\* np.linspace(lo, hi, num_points)[k], times 4 * (num_points - 1)
linspace(lo4, hi4, k) == (num_points - 1) * lo4 + k * (hi4 - lo4)

h_values == [k \in 0 .. (num_points - 1) |-> linspace(h_min4, h_max4, k)]
v_values == [k \in 0 .. (num_points - 1) |-> linspace(v_min4, v_max4, k)]

\* H of np.meshgrid(h_values, v_values, indexing='ij'): the row selects h.
H_ij == [r \in 0 .. (num_points - 1) |-> [c \in 0 .. (num_points - 1) |-> h_values[r]]]

\* H, V = np.meshgrid(h_values, v_values): one row per v, one column per h.
H == [r \in 0 .. (num_points - 1) |-> [c \in 0 .. (num_points - 1) |-> h_values[c]]]
V == [r \in 0 .. (num_points - 1) |-> [c \in 0 .. (num_points - 1) |-> v_values[r]]]

\* a.ravel(): the rows of a one after the other.
ravel(a) == [i \in Index |-> a[i \div num_points][i % num_points]]

\* np.column_stack((a, b)): row i is (a[i], b[i]).
column_stack(a, b) == [i \in DOMAIN a |-> <<a[i], b[i]>>]

grid_points == column_stack(ravel(H), ravel(V))

\* Squared Euclidean distance of two scaled coordinates.
Dist2(p, q) == (p[1] - q[1]) * (p[1] - q[1]) + (p[2] - q[2]) * (p[2] - q[2])

\* np.argmin(np.linalg.norm(grid_points, axis=1)): the first index of least norm.
closest_index ==
    CHOOSE i \in Index :
        \A j \in Index :
            /\ Dist2(grid_points[i], <<0, 0>>) <= Dist2(grid_points[j], <<0, 0>>)
            /\ (j < i => Dist2(grid_points[j], <<0, 0>>) > Dist2(grid_points[i], <<0, 0>>))

\* ------------------------------------------------------------------- shapes
\* The grid point of an all-zero array.
NoPoint == -1

\* One sampled array: component 0 is theta, component 1 is theta'.
Array(comp, pt, guess) == [comp |-> comp, pt |-> pt, guess |-> guess]

\* np.zeros((2, len(s)))
initial_guess_zeros == <<Array(0, NoPoint, NoPoint), Array(1, NoPoint, NoPoint)>>

\* A converged solve_bvp solution for grid point i from an initial guess: it is
\* determined by the load pair and the guess.
Solution(i, y_guess) == [pt |-> i, guess |-> y_guess[1].pt]

\* solution.sol(s)[comp]
sol(solution, comp) == Array(comp, solution.pt, solution.guess)

\* np.cumsum(np.trapezoid(cos or sin of theta, x=s))[-1]
TipOf(axis, theta) == [axis |-> axis, pt |-> theta.pt, guess |-> theta.guess]

\* solve_bvp_for_hv: (success, solution) or (False, None); success is the input.
solve_bvp_for_hv(i, initial_guess, success) ==
    IF success THEN <<TRUE, Solution(i, initial_guess)>> ELSE <<FALSE, <<>>>>

\* solve_bvp is a function of its arguments: the outcomes it can have for grid
\* point i and a guess, given the inputs known to fail.
Outcomes(i, initial_guess, known) ==
    IF <<i, initial_guess[1].pt>> \in known THEN {FALSE}
    ELSE IF Cardinality(known) < MaxFailing THEN {TRUE, FALSE}
    ELSE {TRUE}

NoteOutcome(i, initial_guess, success, known) ==
    IF success THEN known ELSE known \cup {<<i, initial_guess[1].pt>>}

\* ------------------------------------------------------------- neighbourhood
\* adjacent_indices with (-1, 0) twice and (1, 0) missing.
adjacent_indices_twice ==
    << <<-1, 0>>, <<-1, 0>>, <<0, -1>>, <<0, 1>>,
       <<-1, -1>>, <<-1, 1>>, <<1, -1>>, <<1, 1>> >>

adjacent_indices ==
    << <<-1, 0>>, <<1, 0>>, <<0, -1>>, <<0, 1>>,
       <<-1, -1>>, <<-1, 1>>, <<1, -1>>, <<1, 1>> >>

\* get_adjacent_unsolved_points without the test "adj_index not in solved_points".
get_adjacent_points_any(index, solved) ==
    LET row == index \div num_points
        col == index % num_points
        Keep(d) ==
            LET adj_row == row + d[1]
                adj_col == col + d[2]
            IN  /\ 0 <= adj_row /\ adj_row < num_points
                /\ 0 <= adj_col /\ adj_col < num_points
        kept == SelectSeq(adjacent_indices, Keep)
    IN  [k \in 1 .. Len(kept) |-> (row + kept[k][1]) * num_points + (col + kept[k][2])]

\* get_adjacent_unsolved_points without the test "adj_col < num_points": the
\* last column wraps around to the first column of the next row.
get_adjacent_unsolved_points_wrap(index, solved) ==
    LET row == index \div num_points
        col == index % num_points
        Keep(d) ==
            LET adj_row == row + d[1]
                adj_col == col + d[2]
            IN  /\ 0 <= adj_row /\ adj_row < num_points
                /\ 0 <= adj_col
                /\ (adj_row * num_points + adj_col) \in Index \ solved
        kept == SelectSeq(adjacent_indices, Keep)
    IN  [k \in 1 .. Len(kept) |-> (row + kept[k][1]) * num_points + (col + kept[k][2])]

\* get_adjacent_unsolved_points without the test "0 <= adj_col": the first
\* column reaches back to the last column of the row before.
get_adjacent_unsolved_points_nolow(index, solved) ==
    LET row == index \div num_points
        col == index % num_points
        Keep(d) ==
            LET adj_row == row + d[1]
                adj_col == col + d[2]
            IN  /\ 0 <= adj_row /\ adj_row < num_points
                /\ adj_col < num_points
                /\ (adj_row * num_points + adj_col) \notin solved
        kept == SelectSeq(adjacent_indices, Keep)
    IN  [k \in 1 .. Len(kept) |-> (row + kept[k][1]) * num_points + (col + kept[k][2])]

\* get_adjacent_unsolved_points with the row offset alone applied: adj_col is col.
get_adjacent_unsolved_points_column(index, solved) ==
    LET row == index \div num_points
        col == index % num_points
        Keep(d) ==
            LET adj_row == row + d[1]
                adj_col == col
            IN  /\ 0 <= adj_row /\ adj_row < num_points
                /\ 0 <= adj_col /\ adj_col < num_points
                /\ d[2] = 0
                /\ (adj_row * num_points + adj_col) \notin solved
        kept == SelectSeq(adjacent_indices, Keep)
    IN  [k \in 1 .. Len(kept) |-> (row + kept[k][1]) * num_points + col]

get_adjacent_unsolved_points(index, solved) ==
    LET row == index \div num_points
        col == index % num_points
        Keep(d) ==
            LET adj_row == row + d[1]
                adj_col == col + d[2]
            IN  /\ 0 <= adj_row /\ adj_row < num_points
                /\ 0 <= adj_col /\ adj_col < num_points
                /\ (adj_row * num_points + adj_col) \notin solved
        kept == SelectSeq(adjacent_indices, Keep)
    IN  [k \in 1 .. Len(kept) |-> (row + kept[k][1]) * num_points + (col + kept[k][2])]

\* -------------------------------------------------------------------- state
VARIABLES
    pc,                  \* where the build script is
    bl,                  \* the seed solve's success flag: <<>> before the solve
    solved_points,       \* set of solved indices
    solved_points_list,  \* the same, in the order of solving
    theta_dict,          \* index -> theta array
    theta_prime_dict,    \* index -> theta' array
    x_tip, y_tip,        \* tip positions, one per solve
    solutions,           \* (h, v, solution), one per solve
    valid_tips_count,
    total_solved_points,
    current_index,       \* the source of the current iteration
    futures,             \* the batch of the current iteration
    pos,                 \* the future the coordinator waits for
    artifact,            \* the content of cheat_sheet_data.pkl, <<>> while absent
    loaded,              \* the consumer's cheat_sheet_data
    query,               \* the consumer's last query (function, h, v)
    answer,              \* what the query returned
    failing              \* the (grid point, guess) inputs on which solve_bvp failed

buildVars ==
    <<pc, bl, solved_points, solved_points_list, theta_dict, theta_prime_dict,
      x_tip, y_tip, solutions, valid_tips_count, total_solved_points,
      current_index, futures, pos, artifact>>
storeVars ==
    <<solved_points, solved_points_list, theta_dict, theta_prime_dict,
      x_tip, y_tip, solutions, valid_tips_count, total_solved_points>>
consumerVars == <<loaded, query, answer>>
vars == <<buildVars, consumerVars, failing>>

\* d[key] = value for a dictionary held as a function
DictSet(d, key, value) == [k \in (DOMAIN d) \cup {key} |-> IF k = key THEN value ELSE d[k]]

EmptyDict == [k \in {} |-> 0]

Init ==
    /\ pc = "seed"
    /\ bl = <<>>
    /\ solved_points = {}
    /\ solved_points_list = <<>>
    /\ theta_dict = EmptyDict
    /\ theta_prime_dict = EmptyDict
    /\ x_tip = <<>>
    /\ y_tip = <<>>
    /\ solutions = <<>>
    /\ valid_tips_count = 0
    /\ total_solved_points = 0
    /\ current_index = NoPoint
    /\ futures = <<>>
    /\ pos = 0
    /\ artifact = <<>>
    /\ loaded = <<>>
    /\ query = <<>>
    /\ answer = <<>>
    /\ failing = {}

\* Record with "solved_points = {i}" for "solved_points.add(i)".
Record_reset(i, solution, x_tip_val, y_tip_val) ==
    /\ total_solved_points' = total_solved_points + 1
    /\ theta_dict' = DictSet(theta_dict, i, sol(solution, 0))
    /\ theta_prime_dict' = DictSet(theta_prime_dict, i, sol(solution, 1))
    /\ x_tip' = Append(x_tip, x_tip_val)
    /\ y_tip' = Append(y_tip, y_tip_val)
    /\ valid_tips_count' = valid_tips_count + 1
    /\ solutions' = Append(solutions, <<grid_points[i][1], grid_points[i][2], solution>>)
    /\ solved_points' = {i}
    /\ solved_points_list' = Append(solved_points_list, i)

\* Record with the Shape stored under the source's key, current_index, for i.
Record_source_key(i, solution, x_tip_val, y_tip_val) ==
    LET key == IF current_index \in Index THEN current_index ELSE i
    IN  /\ total_solved_points' = total_solved_points + 1
        /\ theta_dict' = DictSet(theta_dict, key, sol(solution, 0))
        /\ theta_prime_dict' = DictSet(theta_prime_dict, key, sol(solution, 1))
        /\ x_tip' = Append(x_tip, x_tip_val)
        /\ y_tip' = Append(y_tip, y_tip_val)
        /\ valid_tips_count' = valid_tips_count + 1
        /\ solutions' = Append(solutions, <<grid_points[i][1], grid_points[i][2], solution>>)
        /\ solved_points' = solved_points \cup {i}
        /\ solved_points_list' = Append(solved_points_list, i)

\* Record without the line theta_prime_dict[i] = theta_prime.
Record_no_prime(i, solution, x_tip_val, y_tip_val) ==
    /\ total_solved_points' = total_solved_points + 1
    /\ theta_dict' = DictSet(theta_dict, i, sol(solution, 0))
    /\ theta_prime_dict' = theta_prime_dict
    /\ x_tip' = Append(x_tip, x_tip_val)
    /\ y_tip' = Append(y_tip, y_tip_val)
    /\ valid_tips_count' = valid_tips_count + 1
    /\ solutions' = Append(solutions, <<grid_points[i][1], grid_points[i][2], solution>>)
    /\ solved_points' = solved_points \cup {i}
    /\ solved_points_list' = Append(solved_points_list, i)

\* Record without the line valid_tips_count += 1.
Record_no_count(i, solution, x_tip_val, y_tip_val) ==
    /\ total_solved_points' = total_solved_points + 1
    /\ theta_dict' = DictSet(theta_dict, i, sol(solution, 0))
    /\ theta_prime_dict' = DictSet(theta_prime_dict, i, sol(solution, 1))
    /\ x_tip' = Append(x_tip, x_tip_val)
    /\ y_tip' = Append(y_tip, y_tip_val)
    /\ valid_tips_count' = valid_tips_count
    /\ solutions' = Append(solutions, <<grid_points[i][1], grid_points[i][2], solution>>)
    /\ solved_points' = solved_points \cup {i}
    /\ solved_points_list' = Append(solved_points_list, i)

\* The bookkeeping of one converged solve of grid point i.
Record(i, solution, x_tip_val, y_tip_val) ==
    /\ total_solved_points' = total_solved_points + 1
    /\ theta_dict' = DictSet(theta_dict, i, sol(solution, 0))
    /\ theta_prime_dict' = DictSet(theta_prime_dict, i, sol(solution, 1))
    /\ x_tip' = Append(x_tip, x_tip_val)
    /\ y_tip' = Append(y_tip, y_tip_val)
    /\ valid_tips_count' = valid_tips_count + 1
    /\ solutions' = Append(solutions, <<grid_points[i][1], grid_points[i][2], solution>>)
    /\ solved_points' = solved_points \cup {i}
    /\ solved_points_list' = Append(solved_points_list, i)

\* The seed: solve the point nearest the origin from the all-zero guess.
SeedSolve ==
    /\ pc = "seed"
    /\ \E success \in Outcomes(closest_index, initial_guess_zeros, failing) :
         LET r == solve_bvp_for_hv(closest_index, initial_guess_zeros, success)
         IN  /\ bl' = <<r[1]>>
             /\ failing' = NoteOutcome(closest_index, initial_guess_zeros, success, failing)
             /\ IF r[1]
                  THEN Record(closest_index, r[2],
                              TipOf("x", sol(r[2], 0)), TipOf("y", sol(r[2], 0)))
                  ELSE UNCHANGED storeVars
    /\ pc' = "loop"
    /\ UNCHANGED <<current_index, futures, pos, artifact, consumerVars>>

\* ------------------------------------------------------- continuation loop
\* executor.submit(solve_for_index, i, index): a call that has not run yet.
Submitted(i, index) ==
    [i |-> i, index |-> index, state |-> "pending",
     initial_guess_adjacent |-> <<>>, result |-> <<>>]

\* LoopExit for the loop condition len(solved_points) < len(grid_points) - 1.
LoopExit_early ==
    /\ pc = "loop"
    /\ ~(Cardinality(solved_points) < N - 1)
    /\ pc' = "save"
    /\ UNCHANGED <<bl, storeVars, current_index, futures, pos, artifact, consumerVars, failing>>

\* while len(solved_points) < len(grid_points) is false: the loop is left.
LoopExit ==
    /\ pc = "loop"
    /\ ~(Cardinality(solved_points) < N)
    /\ pc' = "save"
    /\ UNCHANGED <<bl, storeVars, current_index, futures, pos, artifact, consumerVars, failing>>

\* ChoiceRaises with the loop left ("if not solved_points: break") for the
\* IndexError.
ChoiceBreaks ==
    /\ pc = "loop"
    /\ Cardinality(solved_points) < N
    /\ solved_points = {}
    /\ pc' = "save"
    /\ UNCHANGED <<bl, storeVars, current_index, futures, pos, artifact, consumerVars, failing>>

\* random.choice(list(solved_points)) of an empty set raises IndexError, which
\* nothing catches: the script ends.
ChoiceRaises ==
    /\ pc = "loop"
    /\ Cardinality(solved_points) < N
    /\ solved_points = {}
    /\ pc' = "crashed"
    /\ UNCHANGED <<bl, storeVars, current_index, futures, pos, artifact, consumerVars, failing>>

\* Continue with "break" for "continue": the loop is left.
Continue_break(source) ==
    /\ pc = "loop"
    /\ Cardinality(solved_points) < N
    /\ source \in solved_points
    /\ get_adjacent_unsolved_points(source, solved_points) = <<>>
    /\ current_index' = source
    /\ pc' = "save"
    /\ UNCHANGED <<bl, storeVars, futures, pos, artifact, consumerVars, failing>>

\* random.choice picks source, which has no unsolved neighbour: continue.
Continue(source) ==
    /\ pc = "loop"
    /\ Cardinality(solved_points) < N
    /\ source \in solved_points
    /\ get_adjacent_unsolved_points(source, solved_points) = <<>>
    /\ current_index' = source
    /\ UNCHANGED <<pc, bl, storeVars, futures, pos, artifact, consumerVars, failing>>

\* Dispatch with the source drawn from all grid indices, solved or not.
Dispatch_any(source) ==
    /\ pc = "loop"
    /\ Cardinality(solved_points) < N
    /\ LET unsolved_adjacent == get_adjacent_unsolved_points(source, solved_points)
       IN  /\ unsolved_adjacent # <<>>
           /\ futures' = [k \in 1 .. Len(unsolved_adjacent) |->
                             Submitted(unsolved_adjacent[k], source)]
    /\ current_index' = source
    /\ pos' = 1
    /\ pc' = "collect"
    /\ UNCHANGED <<bl, storeVars, artifact, consumerVars, failing>>

\* random.choice picks source, which has unsolved neighbours: one call per
\* neighbour is submitted to the pool.
Dispatch(source) ==
    /\ pc = "loop"
    /\ Cardinality(solved_points) < N
    /\ source \in solved_points
    /\ LET unsolved_adjacent == get_adjacent_unsolved_points(source, solved_points)
       IN  /\ unsolved_adjacent # <<>>
           /\ futures' = [k \in 1 .. Len(unsolved_adjacent) |->
                             Submitted(unsolved_adjacent[k], source)]
    /\ current_index' = source
    /\ pos' = 1
    /\ pc' = "collect"
    /\ UNCHANGED <<bl, storeVars, artifact, consumerVars, failing>>

\* The source's Shape as solve_for_index reads it: initial_guess_adjacent.
ReadGuess(index) == <<theta_dict[index], theta_prime_dict[index]>>

HasShape(index) == index \in DOMAIN theta_dict /\ index \in DOMAIN theta_prime_dict

\* solve_for_index(i, index) on a pool thread: reads the source's Shape, solves,
\* and returns (i, solution, x tip, y tip) or None. A missing source Shape
\* raises KeyError, which the future holds until result() is called.
solve_for_index(f, success) ==
    IF ~HasShape(f.index)
      THEN [f EXCEPT !.state = "raised"]
      ELSE LET r == solve_bvp_for_hv(f.i, ReadGuess(f.index), success)
           IN  [f EXCEPT !.state = "done",
                         !.initial_guess_adjacent = ReadGuess(f.index),
                         !.result = IF r[1]
                                      THEN <<f.i, r[2], TipOf("x", sol(r[2], 0)),
                                             TipOf("y", sol(r[2], 0))>>
                                      ELSE <<>>]

\* Worker with the pool thread storing its own result in the dictionaries.
Worker_writes ==
    /\ pc = "collect"
    /\ \E k \in 1 .. Len(futures) :
         /\ futures[k].state = "pending"
         /\ HasShape(futures[k].index)
         /\ LET guess == ReadGuess(futures[k].index)
            IN  \E success \in Outcomes(futures[k].i, guess, failing) :
                  LET f == solve_for_index(futures[k], success)
                  IN  /\ futures' = [futures EXCEPT ![k] = f]
                      /\ failing' = NoteOutcome(futures[k].i, guess, success, failing)
                      /\ IF f.result # <<>>
                           THEN /\ theta_dict' = DictSet(theta_dict, f.i, sol(f.result[2], 0))
                                /\ theta_prime_dict' =
                                      DictSet(theta_prime_dict, f.i, sol(f.result[2], 1))
                           ELSE UNCHANGED <<theta_dict, theta_prime_dict>>
    /\ UNCHANGED <<pc, bl, solved_points, solved_points_list, x_tip, y_tip, solutions,
                   valid_tips_count, total_solved_points, current_index, pos, artifact,
                   consumerVars>>

Worker ==
    /\ pc = "collect"
    /\ \E k \in 1 .. Len(futures) :
         /\ futures[k].state = "pending"
         /\ IF ~HasShape(futures[k].index)
              THEN /\ futures' = [futures EXCEPT ![k] = solve_for_index(futures[k], FALSE)]
                   /\ UNCHANGED failing
              ELSE LET guess == ReadGuess(futures[k].index)
                   IN  \E success \in Outcomes(futures[k].i, guess, failing) :
                         /\ futures' = [futures EXCEPT
                                           ![k] = solve_for_index(futures[k], success)]
                         /\ failing' = NoteOutcome(futures[k].i, guess, success, failing)
    /\ UNCHANGED <<pc, bl, storeVars, current_index, pos, artifact, consumerVars>>

\* Collect without "if result:": unpacking None raises TypeError.
Collect_unguarded ==
    /\ pc = "collect"
    /\ pos <= Len(futures)
    /\ futures[pos].state # "pending"
    /\ IF futures[pos].state = "raised" \/ futures[pos].result = <<>>
         THEN /\ pc' = "crashed"
              /\ UNCHANGED <<storeVars, pos>>
         ELSE LET result == futures[pos].result
              IN  /\ Record(result[1], result[2], result[3], result[4])
                  /\ pos' = pos + 1
                  /\ pc' = IF pos = Len(futures) THEN "loop" ELSE "collect"
    /\ UNCHANGED <<bl, current_index, futures, artifact, consumerVars, failing>>

\* Collect that does not block in future.result(): a call still running counts
\* as one that returned None.
Collect_nowait ==
    /\ pc = "collect"
    /\ pos <= Len(futures)
    /\ IF futures[pos].state = "raised"
         THEN /\ pc' = "crashed"
              /\ UNCHANGED <<storeVars, pos>>
         ELSE LET result == futures[pos].result
              IN  /\ IF result # <<>>
                       THEN Record(result[1], result[2], result[3], result[4])
                       ELSE UNCHANGED storeVars
                  /\ pos' = pos + 1
                  /\ pc' = IF pos = Len(futures) THEN "loop" ELSE "collect"
    /\ UNCHANGED <<bl, current_index, futures, artifact, consumerVars, failing>>

\* for future in futures: result = future.result(); if result: record it.
Collect ==
    /\ pc = "collect"
    /\ pos <= Len(futures)
    /\ futures[pos].state # "pending"
    /\ IF futures[pos].state = "raised"
         THEN /\ pc' = "crashed"
              /\ UNCHANGED <<storeVars, pos>>
         ELSE LET result == futures[pos].result
              IN  /\ IF result # <<>>
                       THEN Record(result[1], result[2], result[3], result[4])
                       ELSE UNCHANGED storeVars
                  /\ pos' = pos + 1
                  /\ pc' = IF pos = Len(futures) THEN "loop" ELSE "collect"
    /\ UNCHANGED <<bl, current_index, futures, artifact, consumerVars, failing>>

\* ------------------------------------------------------------- persistence
\* scipy's cKDTree over a point array: the points it indexes.
cKDTree(data) == [data |-> data]

cheat_sheet_data ==
    [grid_points |-> grid_points,
     theta_values |-> theta_dict,
     theta_prime_values |-> theta_prime_dict,
     kdtree |-> cKDTree(grid_points)]

\* The pickled form of a dictionary: its items.
Items(d) == {<<k, d[k]>> : k \in DOMAIN d}
FromItems(items) ==
    [k \in {it[1] : it \in items} |-> (CHOOSE it \in items : it[1] = k)[2]]

\* The pickled form of an array of points: its rows in order.
Rows(a) == [k \in 1 .. Cardinality(DOMAIN a) |-> a[k - 1]]
FromRows(rows) == [i \in 0 .. (Len(rows) - 1) |-> rows[i + 1]]

pickle_dump(data) ==
    [grid_points |-> Rows(data.grid_points),
     theta_values |-> Items(data.theta_values),
     theta_prime_values |-> Items(data.theta_prime_values),
     kdtree |-> Rows(data.kdtree.data)]

\* pickle_load with theta_prime_values read from the key 'theta_values'.
pickle_load_one_key(file) ==
    [grid_points |-> FromRows(file.grid_points),
     theta_values |-> FromItems(file.theta_values),
     theta_prime_values |-> FromItems(file.theta_values),
     kdtree |-> cKDTree(FromRows(file.kdtree))]

pickle_load(file) ==
    [grid_points |-> FromRows(file.grid_points),
     theta_values |-> FromItems(file.theta_values),
     theta_prime_values |-> FromItems(file.theta_prime_values),
     kdtree |-> cKDTree(FromRows(file.kdtree))]

\* The script after the loop: cheat_sheet_data.pkl is written.
Save ==
    /\ pc = "save"
    /\ artifact' = pickle_dump(cheat_sheet_data)
    /\ pc' = "done"
    /\ UNCHANGED <<bl, storeVars, current_index, futures, pos, consumerVars, failing>>

\* cheat_sheet_data = pickle.load(f), at import (elasticEnv) or in __init__ (env).
Load ==
    /\ artifact # <<>>
    /\ loaded = <<>>
    /\ loaded' = pickle_load(artifact)
    /\ UNCHANGED <<buildVars, query, answer, failing>>

Next ==
    \/ SeedSolve
    \/ ChoiceRaises
    \/ \E source \in Index : Continue(source)
    \/ \E source \in Index : Dispatch(source)
    \/ Worker
    \/ Collect
    \/ LoopExit
    \/ Save
    \/ Load

Spec == Init /\ [][Next]_vars

\* The script's thread and the pool's threads keep running, and random.choice
\* picks every solved index again and again.
Fairness ==
    /\ WF_vars(Next)
    /\ \A source \in Index : SF_vars(Dispatch(source))

FairSpec == Spec /\ Fairness

\* ---------------------------------------------------------------- consumers
\* kdtree.query([h, v]) comparing the first coordinate only.
kdtree_query_first_axis(tree, p) ==
    {i \in DOMAIN tree.data :
        \A j \in DOMAIN tree.data :
            (tree.data[i][1] - p[1]) * (tree.data[i][1] - p[1])
                <= (tree.data[j][1] - p[1]) * (tree.data[j][1] - p[1])}

\* kdtree.query([h, v]): the indices a nearest-neighbour query can return, the
\* points of the tree at the least Euclidean distance from the query.
kdtree_query(tree, p) ==
    {i \in DOMAIN tree.data :
        \A j \in DOMAIN tree.data : Dist2(tree.data[i], p) <= Dist2(tree.data[j], p)}

\* theta_values[index], theta_prime_values[index]: KeyError for a missing key.
Lookup(sheet, index) ==
    IF index \in DOMAIN sheet.theta_values /\ index \in DOMAIN sheet.theta_prime_values
      THEN <<"ok", sheet.theta_values[index], sheet.theta_prime_values[index]>>
      ELSE <<"KeyError", index>>

\* The load pairs the environments query with, scaled like the grid: the grid
\* coordinates, the midpoints between them, h = 0 and the largest h.
QueryH ==
    {h_values[k] : k \in 0 .. (num_points - 1)}
      \cup {(h_values[k] + h_values[k + 1]) \div 2 : k \in 0 .. (num_points - 2)}
      \cup {0, h_limit4 * (num_points - 1)}
QueryV ==
    {v_values[k] : k \in 0 .. (num_points - 1)}
      \cup {(v_values[k] + v_values[k + 1]) \div 2 : k \in 0 .. (num_points - 2)}

\* elasticEnv.find_nearest_solution(h, v), with the unpickled tree.
find_nearest_solution(h, v) ==
    /\ loaded # <<>>
    /\ \E index \in kdtree_query(loaded.kdtree, <<h, v>>) :
         /\ answer' = Lookup(loaded, index)
         /\ query' = <<"find_nearest_solution", h, v, index>>
    /\ UNCHANGED <<buildVars, loaded, failing>>

\* The guess lookup of env.Elastica_env.elastica(h, v), h = action[0] * 16 - 16
\* being at most 0, with the tree rebuilt from grid_points.
elastica(h, v) ==
    /\ loaded # <<>>
    /\ h <= 0
    /\ \E nearest_index \in kdtree_query(cKDTree(loaded.grid_points), <<h, v>>) :
         /\ answer' = Lookup(loaded, nearest_index)
         /\ query' = <<"elastica", h, v, nearest_index>>
    /\ UNCHANGED <<buildVars, loaded, failing>>

\* The cheat sheets a consumer can be given: every grid point, and a Shape for
\* all but at most MaxMissing of the indices.
Sheets ==
    {[grid_points |-> grid_points,
      theta_values |-> [i \in Index \ missing |-> Array(0, i, NoPoint)],
      theta_prime_values |-> [i \in Index \ missing |-> Array(1, i, NoPoint)],
      kdtree |-> cKDTree(grid_points)] :
        missing \in {m \in SUBSET Index : Cardinality(m) <= MaxMissing}}

\* A consumer process started on a cheat_sheet_data.pkl that is already there.
InitQuery ==
    /\ pc = "seed"
    /\ bl = <<>>
    /\ solved_points = {}
    /\ solved_points_list = <<>>
    /\ theta_dict = EmptyDict
    /\ theta_prime_dict = EmptyDict
    /\ x_tip = <<>>
    /\ y_tip = <<>>
    /\ solutions = <<>>
    /\ valid_tips_count = 0
    /\ total_solved_points = 0
    /\ current_index = NoPoint
    /\ futures = <<>>
    /\ pos = 0
    /\ artifact \in {pickle_dump(sheet) : sheet \in Sheets}
    /\ loaded = <<>>
    /\ query = <<>>
    /\ answer = <<>>
    /\ failing = {}

NextQuery ==
    \/ Load
    \/ \E h \in QueryH, v \in QueryV : find_nearest_solution(h, v)
    \/ \E h \in QueryH, v \in QueryV : elastica(h, v)

SpecQuery == InitQuery /\ [][NextQuery]_vars

\* ------------------------------------------------------------------ claims
NoDuplicates(seq) ==
    \A a, b \in 1 .. Len(seq) : a # b => seq[a] # seq[b]

InSeq(x, seq) == \E k \in 1 .. Len(seq) : seq[k] = x

RowOf(i) == i \div num_points
ColOf(i) == i % num_points

\* i and j are distinct grid indices one step apart, diagonals included.
Adjacent8(i, j) ==
    /\ i \in Index /\ j \in Index /\ i # j
    /\ RowOf(i) - RowOf(j) \in {-1, 0, 1}
    /\ ColOf(i) - ColOf(j) \in {-1, 0, 1}

\* The step submits a batch.
IsDispatch == pc = "loop" /\ pc' = "collect"

\* The step is one pool thread finishing its call.
IsWorkerStep ==
    /\ pc = "collect"
    /\ Len(futures') = Len(futures)
    /\ \E k \in 1 .. Len(futures) :
         futures[k].state = "pending" /\ futures'[k].state # "pending"

\* C1: the continuation loop terminates on every run: the script leaves the
\* loop, with full coverage or after a bounded number of iterations without
\* growth; it never stays in the loop forever.
C1_LoopTerminates == <>(pc \notin {"seed", "loop", "collect"})

\* C2: write-once store. No index is appended to solved_points_list twice, a
\* stored theta / theta' array is never overwritten or deleted, and no call is
\* submitted for an index that is already solved.
C2_Step ==
    /\ NoDuplicates(solved_points_list')
    /\ Len(solved_points_list) <= Len(solved_points_list')
    /\ SubSeq(solved_points_list', 1, Len(solved_points_list)) = solved_points_list
    /\ \A i \in DOMAIN theta_dict :
         i \in DOMAIN theta_dict' /\ theta_dict'[i] = theta_dict[i]
    /\ \A i \in DOMAIN theta_prime_dict :
         i \in DOMAIN theta_prime_dict' /\ theta_prime_dict'[i] = theta_prime_dict[i]
    /\ IsDispatch => \A k \in 1 .. Len(futures') : futures'[k].i \notin solved_points

C2_WriteOnce == [][C2_Step]_vars

\* An index that failed from one source has been solved from another, and
\* several writes have happened.
C2_Witness ==
    /\ Len(solved_points_list) >= 3
    /\ \E p \in failing : p[1] \in solved_points

\* C3: the solved set only grows, and never has more than N members.
C3_Monotonic ==
    [][solved_points \subseteq solved_points' /\ Cardinality(solved_points') <= N]_vars

\* The loop has been left with every grid index solved.
C3_Witness == pc = "done" /\ Cardinality(solved_points) = N

\* C4: an index becomes solved only as the seed (the index nearest the origin,
\* solved from the all-zero guess) or through a converged call whose guess is
\* the Shape of a source that was solved when the call was submitted and is an
\* 8-connected neighbour of the index.
C4_SeedEntry(i) ==
    /\ pc = "seed"
    /\ \A j \in Index :
         Dist2(grid_points[i], <<0, 0>>) <= Dist2(grid_points[j], <<0, 0>>)
    /\ theta_dict'[i] = Array(0, i, NoPoint)
    /\ theta_prime_dict'[i] = Array(1, i, NoPoint)

C4_NeighbourEntry(i) ==
    /\ pc = "collect"
    /\ pos \in 1 .. Len(futures)
    /\ LET f == futures[pos]
       IN  /\ f.i = i
           /\ f.state = "done"
           /\ f.result # <<>>
           /\ f.index \in solved_points
           /\ Adjacent8(i, f.index)
           /\ f.initial_guess_adjacent = <<theta_dict[f.index], theta_prime_dict[f.index]>>
           /\ theta_dict'[i] = Array(0, i, f.index)
           /\ theta_prime_dict'[i] = Array(1, i, f.index)

C4_Step ==
    /\ \A i \in solved_points' \ solved_points : C4_SeedEntry(i) \/ C4_NeighbourEntry(i)
    /\ IsDispatch =>
         \A k \in 1 .. Len(futures') :
            /\ futures'[k].index \in solved_points
            /\ Adjacent8(futures'[k].i, futures'[k].index)
    /\ (pc = "collect" /\ pc' = "collect") =>
         /\ Len(futures') = Len(futures)
         /\ \A k \in 1 .. Len(futures) :
              futures'[k].i = futures[k].i /\ futures'[k].index = futures[k].index

C4_OnlySeedOrNeighbour == [][C4_Step]_vars

\* Some index was solved from the Shape of a source other than the seed.
C4_Witness ==
    \E i \in solved_points : theta_dict[i].guess \notin {NoPoint, closest_index}

\* C5: a call that fails to converge is recovered in the scheduler: neither the
\* pool thread nor the coordinator changes the store for it, the coordinator
\* goes on with the batch or the loop, and the index stays unsolved and among
\* the unsolved neighbours of its source, so a later iteration can submit it.
C5_Step ==
    /\ (IsWorkerStep /\ \E k \in 1 .. Len(futures) :
            futures[k].state = "pending" /\ futures'[k].state = "done"
            /\ futures'[k].result = <<>>)
         => UNCHANGED <<storeVars, pc, pos>>
    /\ (/\ pc = "collect"
        /\ pos \in 1 .. Len(futures)
        /\ futures[pos].state = "done"
        /\ futures[pos].result = <<>>
        /\ ~IsWorkerStep)
         => /\ UNCHANGED storeVars
            /\ pos' = pos + 1
            /\ pc' = IF pos = Len(futures) THEN "loop" ELSE "collect"
            /\ futures[pos].i \notin solved_points'
            /\ InSeq(futures[pos].i,
                     get_adjacent_unsolved_points(futures[pos].index, solved_points'))

C5_FailureRecovered == [][C5_Step]_vars

\* A call is pending for an index on which an earlier call failed.
C5_Witness ==
    /\ pc = "collect"
    /\ \E k \in 1 .. Len(futures) :
         /\ futures[k].state = "pending"
         /\ \E p \in failing : p[1] = futures[k].i

\* C6: a failed seed solve is fatal: the solved set stays empty, no call is
\* ever submitted, no artifact is written, and the script's next step ends it.
C6_Step ==
    bl' = <<FALSE>> =>
        /\ solved_points' = {}
        /\ theta_dict' = EmptyDict
        /\ futures' = <<>>
        /\ artifact' = <<>>
        /\ pc' \in {"loop", "crashed"}
        /\ pc = "loop" => pc' = "crashed"

C6_SeedFailureFatal == [][C6_Step]_vars

\* The seed solve failed and the script has ended.
C6_Witness == bl = <<FALSE>> /\ pc = "crashed"

\* C7 as stated: the coordinator records no result of a batch while another
\* call of the batch is still running.
C7_JoinBeforeMutate ==
    \A k \in 1 .. Len(futures) :
        (pc = "collect" /\ k < pos /\ futures[k].result # <<>>) =>
            \A j \in 1 .. Len(futures) : futures[j].state # "pending"

\* C7 amended: the coordinator records the result of a call only after that
\* call and every call submitted before it have completed, and it is back at
\* the loop head (to choose the next source) only when no call of the batch is
\* running.
C7_JoinEachBeforeRecord ==
    /\ pc = "collect" =>
         /\ pos \in 1 .. Len(futures)
         /\ \A k \in 1 .. Len(futures) :
              /\ k < pos => futures[k].state = "done"
              /\ futures[k].i \in solved_points =>
                   k < pos /\ futures[k].result # <<>>
    /\ pc \in {"loop", "save", "done"} =>
         \A k \in 1 .. Len(futures) : futures[k].state = "done"

\* A result of the batch is recorded while a later call of it is still running.
C7_Witness ==
    /\ pc = "collect"
    /\ \E k, j \in 1 .. Len(futures) :
         /\ k < pos /\ futures[k].i \in solved_points
         /\ futures[j].state = "pending"

\* C8: within one iteration every call is seeded with the same source Shape:
\* the source's theta and theta' are not changed while the batch is out, and
\* the guess every finished call has read is that Shape.
C8_Step ==
    pc = "collect" =>
        /\ HasShape(current_index)
        /\ current_index \in DOMAIN theta_dict'
        /\ current_index \in DOMAIN theta_prime_dict'
        /\ theta_dict'[current_index] = theta_dict[current_index]
        /\ theta_prime_dict'[current_index] = theta_prime_dict[current_index]
        /\ current_index' = current_index
        /\ \A k \in 1 .. Len(futures') :
             /\ futures'[k].index = current_index
             /\ futures'[k].state # "pending" =>
                  /\ futures'[k].state = "done"
                  /\ futures'[k].initial_guess_adjacent =
                       <<theta_dict[current_index], theta_prime_dict[current_index]>>

C8_SameSnapshot == [][C8_Step]_vars

\* The coordinator has stored a result of the batch, a call of the batch has
\* read its guess after that, and another has still to read it.
C8_Witness ==
    /\ pc = "collect"
    /\ pos >= 2
    /\ Cardinality(solved_points) >= 2
    /\ futures[1].i \in solved_points
    /\ \E k, j \in 2 .. Len(futures) :
         /\ k # j
         /\ futures[k].state = "done"
         /\ futures[j].state = "pending"

\* C9: a pool thread's step changes nothing but its own future; every change
\* of the solved set, the dictionaries, the lists and the counters is a step
\* of the coordinator (the seed bookkeeping or the handling of one result).
C9_Step ==
    /\ IsWorkerStep => UNCHANGED <<storeVars, pc, bl, current_index, pos, artifact>>
    /\ storeVars' # storeVars =>
         /\ futures' = futures
         /\ pc \in {"seed", "collect"}
         /\ pc = "collect" => pos' = pos + 1

C9_WorkersWriteNothing == [][C9_Step]_vars

\* A pool thread has returned a result that the coordinator has not recorded.
C9_Witness ==
    /\ pc = "collect"
    /\ \E k \in 1 .. Len(futures) :
         /\ k >= pos
         /\ futures[k].state = "done"
         /\ futures[k].result # <<>>
         /\ futures[k].i \notin solved_points

QueryIndex == query[4]
QueryPoint == <<query[2], query[3]>>

Keys(items) == {it[1] : it \in items}

C14_RowMajorGrid ==
    /\ DOMAIN grid_points = 0 .. (num_points * num_points - 1)
    /\ \A i, j \in Index : i # j => grid_points[i] # grid_points[j]
    /\ \A i \in Index :
         grid_points[i] = <<h_values[i % num_points], v_values[i \div num_points]>>
    /\ \A a, b \in 0 .. (num_points - 1) :
         Cardinality({i \in Index : grid_points[i] = <<h_values[a], v_values[b]>>}) = 1
    /\ \A k \in 1 .. Len(solutions) :
         LET i == solved_points_list[k]
         IN  /\ solutions[k][1] = h_values[i % num_points]
             /\ solutions[k][2] = v_values[i \div num_points]

\* The build has recorded a solution for every point of the grid.
C14_Witness ==
    /\ Len(solutions) = num_points * num_points
    /\ {solved_points_list[k] : k \in 1 .. Len(solutions)} = Index

\* C15: the artifact is written only by a build whose loop has ended with
\* |Solved| = N, never while solver calls are pending, and no artifact of the
\* build holds an index without a Shape: a nearest-neighbour query against it
\* always finds one.
C15_Step ==
    /\ artifact' # artifact =>
          /\ pc = "save"
          /\ Cardinality(solved_points) = N
          /\ \A k \in 1 .. Len(futures) : futures[k].state # "pending"
    /\ artifact' # <<>> =>
          /\ Keys(artifact'.theta_values) = Index
          /\ Keys(artifact'.theta_prime_values) = Index
          /\ \A h \in QueryH, v \in QueryV :
               \A index \in kdtree_query(pickle_load(artifact').kdtree, <<h, v>>) :
                   Lookup(pickle_load(artifact'), index)[1] = "ok"
C15_CompleteArtifactOnly == [][C15_Step]_vars

\* The artifact is written by a build in which a solve had failed and was
\* made up for later.
C15_Witness ==
    /\ artifact # <<>>
    /\ pc = "done"
    /\ total_solved_points = N
    /\ failing # {}

\* C16: when the seed solve and every dispatched solver call converge and the
\* random choice of the source is fair, the loop eventually reaches |Solved| = N
\* and ends; the iterations whose source has no unsolved neighbour only retry
\* and do not hold the build up forever.
C16_ConvergingBuildFinishes ==
    <>(failing # {} \/ (pc = "done" /\ Cardinality(solved_points) = N))

\* A build without a failed solve has finished, its last source chosen after an
\* iteration that only retried was possible.
C16_Witness ==
    /\ failing = {}
    /\ pc = "done"
    /\ Cardinality(solved_points) = N
    /\ Len(solved_points_list) = N
    /\ \E k \in 1 .. (N - 1) :
         get_adjacent_unsolved_points(solved_points_list[1],
                                      {solved_points_list[m] : m \in 1 .. k}) = <<>>

\* The calls of the batch that have not returned.
Pending(fs) == {k \in 1 .. Len(fs) : fs[k].state = "pending"}

\* C17: each dispatching iteration submits exactly one call per unsolved
\* 8-neighbour of the source, 1 to 8 calls with pairwise distinct targets; the
\* next source is chosen only after all calls of the batch have returned; at
\* most 8 calls are in flight, and batches never overlap.
C17_Step ==
    /\ IsDispatch =>
          /\ current_index' \in solved_points
          /\ {futures'[k].i : k \in 1 .. Len(futures')}
                = {j \in Index : Adjacent8(current_index', j) /\ j \notin solved_points}
          /\ NoDuplicates([k \in 1 .. Len(futures') |-> futures'[k].i])
          /\ Len(futures') \in 1 .. 8
          /\ \A k \in 1 .. Len(futures') :
               futures'[k].index = current_index' /\ futures'[k].state = "pending"
    /\ pc = "loop" => Pending(futures) = {}
    /\ current_index' # current_index => Pending(futures) = {}
    /\ futures' # futures /\ ~IsDispatch =>
          /\ Len(futures') = Len(futures)
          /\ \A k \in 1 .. Len(futures) :
               futures'[k].i = futures[k].i /\ futures'[k].index = futures[k].index
    /\ Cardinality(Pending(futures')) <= 8
C17_OneBatchAtATime == [][C17_Step]_vars

\* A later batch of at least three calls is in flight, one call back and one
\* still out.
C17_Witness ==
    /\ pc = "collect"
    /\ current_index # closest_index
    /\ Len(futures) >= 3
    /\ Pending(futures) # {}
    /\ \E k \in 1 .. Len(futures) : futures[k].state = "done"

\* C18: get_adjacent_unsolved_points(index, solved) returns exactly the indices
\* j whose row and column each differ from those of index by at most 1, with
\* j # index, j in range and j not in solved; it returns no index twice, never
\* the source, and nothing across the edge of a row (no wrap-around).
C18_ExactNeighbours ==
    \A index \in Index :
        LET unsolved_adjacent == get_adjacent_unsolved_points(index, solved_points)
            returned == {unsolved_adjacent[k] : k \in 1 .. Len(unsolved_adjacent)}
        IN  /\ returned = {j \in Index :
                              /\ j # index
                              /\ RowOf(j) - RowOf(index) \in {-1, 0, 1}
                              /\ ColOf(j) - ColOf(index) \in {-1, 0, 1}
                              /\ j \notin solved_points}
            /\ NoDuplicates(unsolved_adjacent)
            /\ index \notin returned
            /\ \A j \in returned :
                 (ColOf(index) = 0 => ColOf(j) # num_points - 1)
                   /\ (ColOf(index) = num_points - 1 => ColOf(j) # 0)

\* A batch was submitted from a source in the last column while the first
\* point of the next row was unsolved, and no call went to that point.
C18_Witness ==
    /\ pc = "collect"
    /\ futures # <<>>
    /\ ColOf(current_index) = num_points - 1
    /\ RowOf(current_index) < num_points - 1
    /\ (current_index + 1) \notin solved_points
    /\ \A k \in 1 .. Len(futures) : futures[k].i # current_index + 1

\* C19: the source chosen in an iteration is a member of Solved whose Shape is
\* present in both dictionaries when each worker of the batch reads it: a
\* worker reads the source's stored theta and theta' and never looks up a
\* missing Shape.
C19_SourceHasShape ==
    /\ current_index # NoPoint =>
          /\ current_index \in solved_points
          /\ current_index \in DOMAIN theta_dict
          /\ current_index \in DOMAIN theta_prime_dict
    /\ \A k \in 1 .. Len(futures) :
          /\ futures[k].index \in solved_points
          /\ HasShape(futures[k].index)
          /\ futures[k].state # "raised"
          /\ futures[k].state = "done" =>
                futures[k].initial_guess_adjacent = ReadGuess(futures[k].index)
    /\ pc = "crashed" => solved_points = {}

\* A worker of a later batch has read the Shape of a source that was itself
\* solved from a neighbour's guess.
C19_Witness ==
    /\ pc = "collect"
    /\ current_index # closest_index
    /\ \E k \in 1 .. Len(futures) :
         /\ futures[k].state = "done"
         /\ futures[k].initial_guess_adjacent[1].pt = current_index
         /\ futures[k].initial_guess_adjacent[1].guess # NoPoint

\* C20: the frontier never empties early: in every reachable state with
\* 0 < |Solved| < N, some solved index has an unsolved 8-neighbour, so a
\* source whose batch is not empty can still be chosen.
C20_FrontierNotEmpty ==
    (0 < Cardinality(solved_points) /\ Cardinality(solved_points) < N) =>
        \E source \in solved_points :
            /\ get_adjacent_unsolved_points(source, solved_points) # <<>>
            /\ \E j \in Index \ solved_points : Adjacent8(source, j)

\* The loop is at a choice where some solved index has no unsolved neighbour
\* left, after a failed solve, and another still has one.
C20_Witness ==
    /\ pc = "loop"
    /\ failing # {}
    /\ Cardinality(solved_points) < N
    /\ \E source \in solved_points :
         get_adjacent_unsolved_points(source, solved_points) = <<>>
    /\ \E source \in solved_points :
         get_adjacent_unsolved_points(source, solved_points) # <<>>

\* C21: at the start of every loop iteration and at loop exit all per-solve
\* records agree: |solved_points| = len(solved_points_list) = len(theta_dict)
\* = len(theta_prime_dict) = len(x_tip) = len(y_tip) = len(solutions)
\* = total_solved_points = valid_tips_count, solved_points_list has no repeated
\* index, and its elements are exactly solved_points.
C21_BookkeepingAgrees ==
    pc \in {"loop", "save", "done"} =>
        /\ Len(solved_points_list) = Cardinality(solved_points)
        /\ Cardinality(DOMAIN theta_dict) = Cardinality(solved_points)
        /\ Cardinality(DOMAIN theta_prime_dict) = Cardinality(solved_points)
        /\ Len(x_tip) = Cardinality(solved_points)
        /\ Len(y_tip) = Cardinality(solved_points)
        /\ Len(solutions) = Cardinality(solved_points)
        /\ total_solved_points = Cardinality(solved_points)
        /\ valid_tips_count = Cardinality(solved_points)
        /\ NoDuplicates(solved_points_list)
        /\ {solved_points_list[k] : k \in 1 .. Len(solved_points_list)} = solved_points

\* The loop is at the start of an iteration after a batch in which one call
\* converged and another did not.
C21_Witness ==
    /\ pc = "loop"
    /\ Cardinality(solved_points) > 1
    /\ \E k \in 1 .. Len(futures) : futures[k].state = "done" /\ futures[k].result = <<>>
    /\ \E k \in 1 .. Len(futures) : futures[k].state = "done" /\ futures[k].result # <<>>

====
